---------------------------- MODULE Spec2Model ----------------------------
(***************************************************************************)
(* Session lifecycle manager (sessionManager.ts), local profile store      *)
(* (userStorage.ts), the two HTTP clients (tavusApi.ts, lingoApi.ts) and   *)
(* the status polling of ConversationInterface.tsx of the                  *)
(* syntrio-ai-platform single page application.                            *)
(*                                                                         *)
(* Time is Date.now() in milliseconds.  One handler runs to completion at  *)
(* one instant (the event loop is single threaded), so every Date.now()    *)
(* read inside one handler sees the same value, the variable now.          *)
(* A timer armed with setTimeout fires at or after its deadline.           *)
(***************************************************************************)
EXTENDS Integers, Sequences, FiniteSets, TLC

(***************************************************************************)
(* Bounds of the model.                                                    *)
(***************************************************************************)
MaxTicks == 2
MaxExpiredCalls == 2
MaxUsers == 2
MaxConversations == 1
MaxClientTicks == 1
MaxCreations == 2

(***************************************************************************)
(* Program constants of SessionManager.                                    *)
(***************************************************************************)
SESSION_DURATION == 24 * 60 * 60 * 1000
WARNING_TIME == 5 * 60 * 1000
ACTIVITY_THRESHOLD == 30 * 1000
BACKUP_FRESHNESS == 24 * 60 * 60 * 1000

activityEvents == <<"mousedown", "mousemove", "keypress", "scroll", "touchstart", "click">>

\* The wizard snapshots a caller may hand to backupWorkInProgress.
WorkData == {"draftA", "draftB"}

\* A timer field that holds null.
NoTimer == 0

NoSession == [exists |-> FALSE]
NoBackup == [exists |-> FALSE]

\* A storage key that holds a string JSON.parse throws on: no record exists
\* under the key, and the key is not empty.
Malformed == [exists |-> FALSE, malformed |-> TRUE]
HiddenWarning == [show |-> FALSE, timeRemaining |-> 0]

Max(a, b) == IF a >= b THEN a ELSE b

VARIABLES
    now,               \* Date.now()
    ticks,             \* number of clock advances so far (bounded by MaxTicks)
    session,           \* localStorage[SESSION_KEY]
    backup,            \* localStorage[WORK_BACKUP_KEY]
    timers,            \* the browser's table of armed timeouts
    warningTimer,      \* SessionManager.warningTimer (a timer id or null)
    expiryTimer,       \* SessionManager.expiryTimer (a timer id or null)
    lastActivityTime,  \* SessionManager.lastActivityTime
    warningCb,         \* sessionWarningCallback is registered
    expiredCb,         \* sessionExpiredCallback is registered
    listeners,         \* the document's registered event listeners
    warning,           \* the last SessionWarning value delivered to the callback
    expiredCount,      \* deliveries of the expired callback for the current session
    warned,            \* a warning with show = true was delivered for the current session
    lastActivityWrite, \* when handleUserActivity last wrote the session record (-1: never)
    ret,               \* what the last operation did and returned
    users,             \* localStorage[USERS_KEY]
    currentUser,       \* localStorage[CURRENT_USER_KEY]
    created,           \* the accepted createUser calls, with the profiles returned
    uret,              \* what the last profile store operation returned
    tavus,             \* the TavusAPI singleton (rate limiter and usage fields)
    lingo,             \* the LingoAPI singleton (rate limiter fields)
    call,              \* the client request in flight, between two awaits
    cret,              \* what the last finished client request returned
    ui                 \* ConversationInterface: active conversation, poll and duration timers

sessVars == <<now, ticks, session, backup, timers, warningTimer, expiryTimer,
              lastActivityTime, warningCb, expiredCb, listeners, warning,
              expiredCount, warned, lastActivityWrite, ret>>
userVars == <<users, currentUser, created, uret>>
clientVars == <<tavus, lingo, call, cret, ui>>
vars == <<sessVars, userVars, clientVars>>

(***************************************************************************)
(* The manager, storage, timer table and listener table as one record, so  *)
(* that the methods compose as they call each other in the source.         *)
(* wrote and expired observe one handler: saveSession ran, expireSession   *)
(* ran.                                                                    *)
(***************************************************************************)
Cur ==
    [session |-> session, backup |-> backup, timers |-> timers,
     warningTimer |-> warningTimer, expiryTimer |-> expiryTimer,
     lastActivityTime |-> lastActivityTime, warningCb |-> warningCb,
     expiredCb |-> expiredCb, listeners |-> listeners, warning |-> warning,
     expiredCount |-> expiredCount,
     warned |-> warned, lastActivityWrite |-> lastActivityWrite,
     wrote |-> FALSE, expired |-> FALSE]

Apply(m) ==
    /\ session' = m.session
    /\ backup' = m.backup
    /\ timers' = m.timers
    /\ warningTimer' = m.warningTimer
    /\ expiryTimer' = m.expiryTimer
    /\ lastActivityTime' = m.lastActivityTime
    /\ warningCb' = m.warningCb
    /\ expiredCb' = m.expiredCb
    /\ listeners' = m.listeners
    /\ warning' = m.warning
    /\ expiredCount' = m.expiredCount
    /\ warned' = m.warned
    /\ lastActivityWrite' = m.lastActivityWrite

Done(op, val, m) == [op |-> op, val |-> val, wrote |-> m.wrote, expired |-> m.expired]

(***************************************************************************)
(* Browser primitives.                                                     *)
(***************************************************************************)
\* setTimeout returns a handle no live timer and no field of the manager holds.
FreshTimerId(m) ==
    LET used == {x.id : x \in m.timers} \cup {m.warningTimer, m.expiryTimer, NoTimer}
    IN  CHOOSE i \in 1..(Cardinality(used) + 1) : i \notin used

\* clearTimeout(id): a handle of no armed timer is ignored.
clearTimeout(tm, id) == {x \in tm : x.id # id}

\* Function.prototype.bind returns a new function object on every call.
BindFn(ls) ==
    LET used == {l.fn : l \in ls}
    IN  CHOOSE i \in 1..(Cardinality(used) + 1) : i \notin used

addEventListener(ls, ev, fn) == ls \cup {[event |-> ev, fn |-> fn]}
removeEventListener(ls, ev, fn) == ls \ {[event |-> ev, fn |-> fn]}

(***************************************************************************)
(* SessionManager methods.  m is the record above, t is Date.now().        *)
(***************************************************************************)
\* Mutant of clearTimers: the fields are reset, the timeouts are not cancelled.
clearTimers_FieldsOnly(m) ==
    [m EXCEPT !.warningTimer = NoTimer, !.expiryTimer = NoTimer]

clearTimers(m) ==
    LET a == IF m.warningTimer # NoTimer
             THEN [m EXCEPT !.timers = clearTimeout(@, m.warningTimer),
                            !.warningTimer = NoTimer]
             ELSE m
    IN  IF a.expiryTimer # NoTimer
        THEN [a EXCEPT !.timers = clearTimeout(@, a.expiryTimer),
                       !.expiryTimer = NoTimer]
        ELSE a

clearSession(m) == clearTimers([m EXCEPT !.session = NoSession])

\* workData is "undefined" when the caller passes no argument.
backupWorkInProgress(m, workData, t) ==
    IF workData # "undefined"
    THEN [m EXCEPT !.backup = [exists |-> TRUE, data |-> workData, timestamp |-> t]]
    ELSE m

\* Mutant of IsRecent: a snapshot exactly 24 hours old still counts as recent.
IsRecent_Inclusive(timestamp, t) == t - timestamp <= BACKUP_FRESHNESS

IsRecent(timestamp, t) == t - timestamp < BACKUP_FRESHNESS

\* Returns the manager after the call (m) and the snapshot returned (val).
restoreWorkInProgress(m, t) ==
    IF m.backup = Malformed THEN [m |-> m, val |-> NoBackup]
    ELSE IF ~m.backup.exists THEN [m |-> m, val |-> NoBackup]
    ELSE IF IsRecent(m.backup.timestamp, t) THEN [m |-> m, val |-> m.backup]
    ELSE [m |-> m, val |-> NoBackup]

clearWorkBackup(m) == [m EXCEPT !.backup = NoBackup]

expireSession(m, t) ==
    LET a == backupWorkInProgress(m, "undefined", t)
        b == clearSession(a)
        c == [clearTimers(b) EXCEPT !.expired = TRUE]
    IN  IF c.expiredCb THEN [c EXCEPT !.expiredCount = @ + 1] ELSE c

saveSession(m, s) == [m EXCEPT !.session = s, !.wrote = TRUE]

IsExpired(s, t) == t > s.expiresAt

\* Returns the manager after the call (m) and the session returned (val).
getCurrentSession(m, t) ==
    IF m.session = Malformed THEN [m |-> clearSession(m), val |-> NoSession]
    ELSE IF ~m.session.exists THEN [m |-> m, val |-> NoSession]
    ELSE IF IsExpired(m.session, t) THEN [m |-> expireSession(m, t), val |-> NoSession]
    ELSE [m |-> m, val |-> m.session]

\* Mutant of hideSessionWarning: no value is delivered.
hideSessionWarning_Never(m) == m

hideSessionWarning(m) ==
    IF m.warningCb THEN [m EXCEPT !.warning = HiddenWarning] ELSE m

showSessionWarning(m, t) ==
    LET g == getCurrentSession(m, t)
    IN  IF ~g.val.exists THEN g.m
        ELSE IF g.m.warningCb
             THEN [g.m EXCEPT !.warning = [show |-> TRUE,
                                           timeRemaining |-> Max(0, g.val.expiresAt - t)],
                              !.warned = TRUE]
             ELSE g.m

setWarningTimer(m, due) ==
    LET id == FreshTimerId(m)
    IN  [m EXCEPT !.timers = @ \cup {[id |-> id, kind |-> "warning", due |-> due]},
                  !.warningTimer = id]

setExpiryTimer(m, due) ==
    LET id == FreshTimerId(m)
    IN  [m EXCEPT !.timers = @ \cup {[id |-> id, kind |-> "expiry", due |-> due]},
                  !.expiryTimer = id]

startSessionTimers(m, s, t) ==
    LET a == clearTimers(m)
        timeUntilWarning == s.expiresAt - t - WARNING_TIME
        timeUntilExpiry == s.expiresAt - t
        b == IF timeUntilWarning > 0 THEN setWarningTimer(a, t + timeUntilWarning)
             ELSE IF timeUntilExpiry > 0 THEN showSessionWarning(a, t)
             ELSE a
    IN  IF timeUntilExpiry > 0 THEN setExpiryTimer(b, t + timeUntilExpiry) ELSE b

createSession(m, t) ==
    LET sessionData == [exists |-> TRUE,
                        loginTime |-> t,
                        lastActivity |-> t,
                        expiresAt |-> t + SESSION_DURATION]
        a == [m EXCEPT !.expiredCount = 0, !.warned = FALSE]
    IN  startSessionTimers(saveSession(a, sessionData), sessionData, t)

\* Mutant of ExtendedExpiry: the extension is added to the old expiry.
ExtendedExpiry_FromOldExpiry(s, t) == s.expiresAt + SESSION_DURATION

ExtendedExpiry(s, t) == t + SESSION_DURATION

\* Returns the manager after the call (m) and the boolean returned (val).
extendSession(m, t) ==
    LET g == getCurrentSession(m, t)
    IN  IF ~g.val.exists THEN [m |-> g.m, val |-> FALSE]
        ELSE LET s == [g.val EXCEPT !.expiresAt = ExtendedExpiry(g.val, t),
                                    !.lastActivity = t]
             IN  [m |-> startSessionTimers(saveSession(g.m, s), s, t), val |-> TRUE]

\* Mutant of updateSessionActivity: every accepted signal extends the session.
updateSessionActivity_Always(m, t) ==
    LET g == getCurrentSession(m, t)
    IN  IF ~g.val.exists THEN g.m
        ELSE LET s == [g.val EXCEPT !.lastActivity = t, !.expiresAt = t + SESSION_DURATION]
             IN  [saveSession(g.m, s) EXCEPT !.lastActivityWrite = t]

updateSessionActivity(m, t) ==
    LET g == getCurrentSession(m, t)
    IN  IF ~g.val.exists THEN g.m
        ELSE LET s1 == [g.val EXCEPT !.lastActivity = t]
                 s2 == IF s1.expiresAt - t < SESSION_DURATION \div 2
                       THEN [s1 EXCEPT !.expiresAt = t + SESSION_DURATION]
                       ELSE s1
             IN  [saveSession(g.m, s2) EXCEPT !.lastActivityWrite = t]

\* Mutant of ActivityAccepted: a signal exactly 30 seconds after the last one passes.
ActivityAccepted_Inclusive(m, t) == t - m.lastActivityTime >= ACTIVITY_THRESHOLD

ActivityAccepted(m, t) == t - m.lastActivityTime > ACTIVITY_THRESHOLD

handleUserActivity(m, t) ==
    IF ActivityAccepted(m, t)
    THEN updateSessionActivity([m EXCEPT !.lastActivityTime = t], t)
    ELSE m

checkExistingSession(m, t) ==
    LET g == getCurrentSession(m, t)
    IN  IF g.val.exists THEN startSessionTimers(g.m, g.val, t) ELSE g.m

\* Returns the manager after the call (m) and the boolean returned (val).
isSessionValid(m, t) ==
    LET g == getCurrentSession(m, t)
    IN  [m |-> g.m, val |-> g.val.exists /\ t < g.val.expiresAt]

\* forEach over activityEvents from index i: one bind and one addEventListener each.
RECURSIVE AddActivityListeners(_, _)
AddActivityListeners(ls, i) ==
    IF i > Len(activityEvents) THEN ls
    ELSE AddActivityListeners(addEventListener(ls, activityEvents[i], BindFn(ls)), i + 1)

initializeActivityTracking(m) ==
    LET a == AddActivityListeners(m.listeners, 1)
    IN  [m EXCEPT !.listeners = addEventListener(a, "visibilitychange", BindFn(a))]

\* forEach over activityEvents from index i: one bind and one removeEventListener each.
RECURSIVE RemoveActivityListeners(_, _)
RemoveActivityListeners(ls, i) ==
    IF i > Len(activityEvents) THEN ls
    ELSE RemoveActivityListeners(removeEventListener(ls, activityEvents[i], BindFn(ls)), i + 1)

cleanup(m) ==
    LET a == clearTimers(m)
    IN  [a EXCEPT !.listeners = RemoveActivityListeners(@, 1)]

\* The fields of a new SessionManager in a freshly loaded page: the storage stays,
\* the timers, listeners and callbacks of the page before are gone.
FieldInitializers(m, t) ==
    [m EXCEPT !.timers = {}, !.warningTimer = NoTimer, !.expiryTimer = NoTimer,
              !.lastActivityTime = t, !.warningCb = FALSE, !.expiredCb = FALSE,
              !.listeners = {}, !.warning = HiddenWarning]

constructor(m, t) ==
    checkExistingSession(initializeActivityTracking(FieldInitializers(m, t)), t)

HasListener(ev) == \E l \in listeners : l.event = ev

(***************************************************************************)
(* Initial state: the module is imported in a page with empty storage and  *)
(* the singleton is constructed.                                           *)
(***************************************************************************)
EmptyPage ==
    [session |-> NoSession, backup |-> NoBackup, timers |-> {},
     warningTimer |-> NoTimer, expiryTimer |-> NoTimer,
     lastActivityTime |-> 0, warningCb |-> FALSE, expiredCb |-> FALSE,
     listeners |-> {}, warning |-> HiddenWarning,
     expiredCount |-> 0, warned |-> FALSE, lastActivityWrite |-> -1,
     wrote |-> FALSE, expired |-> FALSE]

InitSession ==
    LET m == constructor(EmptyPage, 0)
    IN  /\ now = 0
        /\ ticks = 0
        /\ session = m.session
        /\ backup = m.backup
        /\ timers = m.timers
        /\ warningTimer = m.warningTimer
        /\ expiryTimer = m.expiryTimer
        /\ lastActivityTime = m.lastActivityTime
        /\ warningCb = m.warningCb
        /\ expiredCb = m.expiredCb
        /\ listeners = m.listeners
        /\ warning = m.warning
        /\ expiredCount = m.expiredCount
        /\ warned = m.warned
        /\ lastActivityWrite = m.lastActivityWrite
        /\ ret = Done("constructor", TRUE, m)

(***************************************************************************)
(* The clock.  It moves to an instant at which some comparison of the      *)
(* manager can change its outcome, or one millisecond on.                  *)
(***************************************************************************)
Instants ==
    {now + 1, lastActivityTime + ACTIVITY_THRESHOLD}
    \cup {x.due : x \in timers}
    \cup (IF session.exists
          THEN {session.expiresAt - WARNING_TIME,
                session.expiresAt - SESSION_DURATION \div 2,
                session.expiresAt}
          ELSE {})
    \cup (IF backup.exists THEN {backup.timestamp + BACKUP_FRESHNESS} ELSE {})

Advance ==
    /\ ticks < MaxTicks
    /\ \E t \in Instants :
        /\ t > now
        /\ now' = t
    /\ ticks' = ticks + 1
    /\ ret' = [op |-> "advance", val |-> TRUE, wrote |-> FALSE, expired |-> FALSE]
    /\ UNCHANGED <<session, backup, timers, warningTimer, expiryTimer,
                   lastActivityTime, warningCb, expiredCb, listeners, warning,
                   expiredCount, warned, lastActivityWrite>>
    /\ UNCHANGED userVars
    /\ UNCHANGED clientVars

Same == UNCHANGED <<now, ticks>> /\ UNCHANGED userVars /\ UNCHANGED clientVars

(***************************************************************************)
(* The public methods, called by the application.                          *)
(***************************************************************************)
\* The application registers both callbacks in one effect, right after its mount.
RegisterCallbacks ==
    LET m == [Cur EXCEPT !.warningCb = TRUE, !.expiredCb = TRUE]
    IN  Apply(m) /\ ret' = Done("registerCallbacks", TRUE, m) /\ Same

CreateSession ==
    LET m == createSession(Cur, now)
    IN  Apply(m) /\ ret' = Done("createSession", TRUE, m) /\ Same

GetCurrentSession ==
    LET g == getCurrentSession(Cur, now)
    IN  Apply(g.m) /\ ret' = Done("getCurrentSession", g.val, g.m) /\ Same

ExtendSession ==
    LET g == extendSession(Cur, now)
    IN  Apply(g.m) /\ ret' = Done("extendSession", g.val, g.m) /\ Same

ClearSession ==
    LET m == clearSession(Cur)
    IN  Apply(m) /\ ret' = Done("clearSession", TRUE, m) /\ Same

BackupWorkInProgress ==
    \E w \in WorkData :
        LET m == backupWorkInProgress(Cur, w, now)
        IN  Apply(m) /\ ret' = Done("backupWorkInProgress", TRUE, m) /\ Same

RestoreWorkInProgress ==
    LET g == restoreWorkInProgress(Cur, now)
    IN  Apply(g.m) /\ ret' = Done("restoreWorkInProgress", g.val, g.m) /\ Same

ClearWorkBackup ==
    LET m == clearWorkBackup(Cur)
    IN  Apply(m) /\ ret' = Done("clearWorkBackup", TRUE, m) /\ Same

IsSessionValid ==
    LET g == isSessionValid(Cur, now)
    IN  Apply(g.m) /\ ret' = Done("isSessionValid", g.val, g.m) /\ Same

Cleanup ==
    LET m == cleanup(Cur)
    IN  Apply(m) /\ ret' = Done("cleanup", TRUE, m) /\ Same

(***************************************************************************)
(* Events of the page.                                                     *)
(***************************************************************************)
\* One of the six tracked events reaches a listener the manager registered.
UserActivity ==
    \E i \in 1..Len(activityEvents) :
        /\ HasListener(activityEvents[i])
        /\ LET m == handleUserActivity(Cur, now)
           IN  Apply(m) /\ ret' = Done("activity", ActivityAccepted(Cur, now), m) /\ Same

\* visibilitychange: the listener calls handleUserActivity unless the page is hidden.
VisibilityChange ==
    \E hidden \in BOOLEAN :
        /\ HasListener("visibilitychange")
        /\ LET m == IF ~hidden THEN handleUserActivity(Cur, now) ELSE Cur
           IN  Apply(m)
               /\ ret' = Done(IF hidden THEN "hidden" ELSE "activity",
                             ~hidden /\ ActivityAccepted(Cur, now), m)
               /\ Same

\* The browser runs due timeouts in the order of their deadlines.
NextDue(x) == x.due <= now /\ \A y \in timers : y.due >= x.due

\* A due timeout runs its callback; a timeout that has run is gone from the table.
WarningTimerFires ==
    \E x \in timers :
        /\ x.kind = "warning"
        /\ NextDue(x)
        /\ LET m == showSessionWarning([Cur EXCEPT !.timers = @ \ {x}], now)
           IN  Apply(m) /\ ret' = Done("warningTimer", TRUE, m) /\ Same

ExpiryTimerFires ==
    \E x \in timers :
        /\ x.kind = "expiry"
        /\ NextDue(x)
        /\ LET m == expireSession([Cur EXCEPT !.timers = @ \ {x}], now)
           IN  Apply(m) /\ ret' = Done("expiryTimer", TRUE, m) /\ Same

\* The closures of the last visible warning, called by the warning dialog.
OnExtend ==
    /\ warning.show
    /\ LET g == extendSession(Cur, now)
           m == hideSessionWarning(g.m)
       IN  Apply(m) /\ ret' = Done("onExtend", g.val, m) /\ Same

OnLogout ==
    /\ warning.show
    /\ expiredCount < MaxExpiredCalls
    /\ LET m == expireSession(Cur, now)
       IN  Apply(m) /\ ret' = Done("onLogout", TRUE, m) /\ Same

\* The page is loaded again: a new manager is constructed over the storage left behind.
PageLoad ==
    LET m == constructor(Cur, now)
    IN  Apply(m) /\ ret' = Done("constructor", TRUE, m) /\ Same

NextSession ==
    \/ Advance
    \/ RegisterCallbacks
    \/ CreateSession
    \/ GetCurrentSession
    \/ ExtendSession
    \/ ClearSession
    \/ IsSessionValid
    \/ Cleanup
    \/ UserActivity
    \/ VisibilityChange
    \/ WarningTimerFires
    \/ ExpiryTimerFires
    \/ OnExtend
    \/ OnLogout
    \/ PageLoad

(***************************************************************************)
(* UserStorageManager.  A string is the sequence of its characters.        *)
(***************************************************************************)
\* String.prototype.toLowerCase over the letters the inputs use.
LowerChar(c) == IF c = "A" THEN "a" ELSE IF c = "B" THEN "b" ELSE c
toLowerCase(str) == [i \in 1..Len(str) |-> LowerChar(str[i])]

\* String.prototype.trim: the string without its leading and trailing white space.
RECURSIVE trimStart(_)
trimStart(str) ==
    IF str # <<>> /\ Head(str) = " " THEN trimStart(Tail(str)) ELSE str
RECURSIVE trimEnd(_)
trimEnd(str) ==
    IF str # <<>> /\ str[Len(str)] = " " THEN trimEnd(SubSeq(str, 1, Len(str) - 1)) ELSE str
trim(str) == trimEnd(trimStart(str))

includes(str, c) == \E i \in 1..Len(str) : str[i] = c

Chars(c, n) == [i \in 1..n |-> c]

Names == {<<"A">>, <<"A", "l">>, <<"B", "o", " ">>}
Emails == {<<"a", "@">>, <<"a", "@", ".">>, <<"A", "@", ".">>,
           <<" ", "a", "@", ".">>, <<"b", "@", ".">>}
Passwords == {Chars("p", 5), Chars("p", 6), Chars("q", 6)}

NoUser == [exists |-> FALSE]

\* The user table read from storage: empty when the key does not parse.  The
\* key of the table is a sequence in the model, <<Malformed>> when it is malformed.
getAllUsers(stored) == IF stored = <<Malformed>> THEN <<>> ELSE stored

\* btoa(password + 'voiceverse_salt'): base64 is one-to-one.
hashPassword(password) == [btoa |-> password \o <<"voiceverse_salt">>]

verifyPassword(password, hashedPassword) == hashPassword(password) = hashedPassword

\* A comparison that does not fold letter case.
emailMatches_CaseSensitive(stored, email) == stored = email

emailMatches(stored, email) == toLowerCase(stored) = toLowerCase(email)

emailExists(us, email) ==
    \E i \in 1..Len(us) : emailMatches(us[i].email, email)

\* The UserProfile built from a StoredUser: every field but the password.
userProfile(u) ==
    [id |-> u.id, email |-> u.email, name |-> u.name,
     createdAt |-> u.createdAt, updatedAt |-> u.updatedAt]

Failure(error) == [success |-> FALSE, error |-> error]
Success(u) == [success |-> TRUE, user |-> userProfile(u)]

\* generateUserId: an id no stored user has.
generateUserId(us) == Len(us) + 1

\* Returns the user table after the call (users) and the result returned (res).
createUser(us, name, email, password, t) ==
    IF trim(name) = <<>>
    THEN [users |-> us, res |-> Failure("Full name is required")]
    ELSE IF Len(trim(name)) < 2
    THEN [users |-> us, res |-> Failure("Full name must be at least 2 characters long")]
    ELSE IF trim(email) = <<>>
    THEN [users |-> us, res |-> Failure("Email address is required")]
    ELSE IF ~includes(email, "@") \/ ~includes(email, ".")
    THEN [users |-> us, res |-> Failure("Please enter a valid email address")]
    ELSE IF password = <<>>
    THEN [users |-> us, res |-> Failure("Password is required")]
    ELSE IF Len(password) < 6
    THEN [users |-> us, res |-> Failure("Password must be at least 6 characters long")]
    ELSE IF emailExists(us, email)
    THEN [users |-> us,
          res |-> Failure("An account with this email address already exists")]
    ELSE LET newUser == [id |-> generateUserId(us),
                         email |-> trim(toLowerCase(email)),
                         name |-> trim(name),
                         password |-> hashPassword(password),
                         createdAt |-> t,
                         updatedAt |-> t]
         IN  [users |-> Append(us, newUser), res |-> Success(newUser)]

\* users.find: the index of the first record that matches, 0 when none does.
FindByEmail(us, email) ==
    IF \E i \in 1..Len(us) : toLowerCase(us[i].email) = trim(toLowerCase(email))
    THEN CHOOSE i \in 1..Len(us) :
            /\ toLowerCase(us[i].email) = trim(toLowerCase(email))
            /\ \A j \in 1..(i - 1) : toLowerCase(us[j].email) # trim(toLowerCase(email))
    ELSE 0

\* The result authenticateUser returns; storage is only read.
authenticateUser(us, email, password) ==
    IF trim(email) = <<>> THEN Failure("Please enter your email address")
    ELSE IF password = <<>> THEN Failure("Please enter your password")
    ELSE LET i == FindByEmail(us, email)
         IN  IF i = 0 THEN Failure("No account found with this email address")
             ELSE IF ~verifyPassword(password, us[i].password)
             THEN Failure("Incorrect password. Please try again.")
             ELSE Success(us[i])

\* users.findIndex: the index of the first record with this id, 0 when none has it.
FindById(us, userId) ==
    IF \E i \in 1..Len(us) : us[i].id = userId
    THEN CHOOSE i \in 1..Len(us) :
            us[i].id = userId /\ \A j \in 1..(i - 1) : us[j].id # userId
    ELSE 0

\* Mutant of updateUser: the current-user pointer is rewritten whoever is logged in.
updateUser_AnyPointer(us, cu, userId, updates, t) ==
    IF updates.defined /\ trim(updates.name) = <<>>
    THEN [users |-> us, currentUser |-> cu, res |-> Failure("Full name is required")]
    ELSE IF updates.defined /\ Len(trim(updates.name)) < 2
    THEN [users |-> us, currentUser |-> cu,
          res |-> Failure("Full name must be at least 2 characters long")]
    ELSE LET userIndex == FindById(us, userId)
         IN  IF userIndex = 0
             THEN [users |-> us, currentUser |-> cu, res |-> Failure("User not found")]
             ELSE LET u1 == IF updates.defined
                            THEN [us[userIndex] EXCEPT !.name = trim(updates.name)]
                            ELSE us[userIndex]
                      user == [u1 EXCEPT !.updatedAt = t]
                  IN  [users |-> [us EXCEPT ![userIndex] = user],
                       currentUser |-> IF cu.exists
                                       THEN [exists |-> TRUE, user |-> userProfile(user)]
                                       ELSE cu,
                       res |-> Success(user)]

\* updates is [defined |-> FALSE] when the caller gives no name.
\* Returns the user table and current-user pointer after the call, and the result.
updateUser(us, cu, userId, updates, t) ==
    IF updates.defined /\ trim(updates.name) = <<>>
    THEN [users |-> us, currentUser |-> cu, res |-> Failure("Full name is required")]
    ELSE IF updates.defined /\ Len(trim(updates.name)) < 2
    THEN [users |-> us, currentUser |-> cu,
          res |-> Failure("Full name must be at least 2 characters long")]
    ELSE LET userIndex == FindById(us, userId)
         IN  IF userIndex = 0
             THEN [users |-> us, currentUser |-> cu, res |-> Failure("User not found")]
             ELSE LET u1 == IF updates.defined
                            THEN [us[userIndex] EXCEPT !.name = trim(updates.name)]
                            ELSE us[userIndex]
                      user == [u1 EXCEPT !.updatedAt = t]
                  IN  [users |-> [us EXCEPT ![userIndex] = user],
                       currentUser |-> IF cu.exists /\ cu.user.id = userId
                                       THEN [exists |-> TRUE, user |-> userProfile(user)]
                                       ELSE cu,
                       res |-> Success(user)]

setCurrentUser(profile) == [exists |-> TRUE, user |-> profile]

UserSame == UNCHANGED sessVars /\ UNCHANGED clientVars

CreateUser ==
    /\ Len(getAllUsers(users)) < MaxUsers
    /\ \E name \in Names, email \in Emails, password \in Passwords :
        LET r == createUser(getAllUsers(users), name, email, password, now)
        IN  /\ users' = IF r.res.success THEN r.users ELSE users
            /\ created' = IF r.res.success
                          THEN created \cup {[email |-> email, password |-> password,
                                              user |-> r.res.user]}
                          ELSE created
            /\ uret' = [op |-> "createUser", name |-> name, email |-> email,
                        password |-> password, res |-> r.res]
            /\ UNCHANGED currentUser
            /\ UserSame

AuthenticateUser ==
    \E email \in Emails, password \in Passwords :
        /\ uret' = [op |-> "authenticateUser", name |-> <<>>, email |-> email,
                    password |-> password,
                    res |-> authenticateUser(getAllUsers(users), email, password)]
        /\ UNCHANGED <<users, currentUser, created>>
        /\ UserSame

\* A profile is updated: the createUser calls of that id no longer count as
\* "not updated since".
UpdateUser ==
    \E userId \in 1..MaxUsers,
       updates \in {[defined |-> FALSE]} \cup {[defined |-> TRUE, name |-> n] : n \in Names} :
        LET r == updateUser(getAllUsers(users), currentUser, userId, updates, now)
        IN  /\ users' = IF r.res.success THEN r.users ELSE users
            /\ currentUser' = r.currentUser
            /\ created' = IF r.res.success
                          THEN {c \in created : c.user.id # userId}
                          ELSE created
            /\ uret' = [op |-> "updateUser", userId |-> userId,
                        name |-> IF updates.defined THEN updates.name ELSE <<>>,
                        email |-> <<>>, password |-> <<>>, res |-> r.res]
            /\ UserSame

\* login and signup store the profile they were returned as the current user.
SetCurrentUser ==
    /\ uret.op \in {"createUser", "authenticateUser"}
    /\ uret.res.success
    /\ currentUser' = setCurrentUser(uret.res.user)
    /\ uret' = [op |-> "setCurrentUser", name |-> <<>>, email |-> <<>>, password |-> <<>>,
                res |-> uret.res]
    /\ UNCHANGED <<users, created>>
    /\ UserSame

ClearCurrentUser ==
    /\ currentUser' = NoUser
    /\ uret' = [op |-> "clearCurrentUser", name |-> <<>>, email |-> <<>>, password |-> <<>>,
                res |-> Failure("")]
    /\ UNCHANGED <<users, created>>
    /\ UserSame

\* getCurrentUser: the pointer read from storage, null when the key does not parse.
GetCurrentUser ==
    /\ uret' = [op |-> "getCurrentUser", name |-> <<>>, email |-> <<>>, password |-> <<>>,
                res |-> IF currentUser = Malformed THEN NoUser ELSE currentUser]
    /\ UNCHANGED <<users, currentUser, created>>
    /\ UserSame

NextUsers ==
    \/ CreateUser
    \/ AuthenticateUser
    \/ UpdateUser
    \/ SetCurrentUser
    \/ ClearCurrentUser

InitUsers ==
    /\ users = <<>>
    /\ currentUser = NoUser
    /\ created = {}
    /\ uret = [op |-> "init", name |-> <<>>, email |-> <<>>, password |-> <<>>,
               res |-> Failure("")]

(***************************************************************************)
(* The HTTP clients.  A request runs from one await to the next in one     *)
(* step; call holds the request that waits for fetch or for a retry delay. *)
(* One request is in flight at a time.  The waits of a request (retry      *)
(* delays, poll delays) are recorded with the request; the clock is moved  *)
(* by AdvanceClient, at any point between two steps.                       *)
(***************************************************************************)
MsPerHour == 1000 * 60 * 60

\* The readonly fields of the two client classes.
TavusAPI == [timeout |-> 30000, maxRetries |-> 3, retryDelay |-> 2000, rateLimit |-> 50]
LingoAPI == [timeout |-> 10000, maxRetries |-> 3, retryDelay |-> 2000, rateLimit |-> 100]

\* An optional string field of a request: a value, or undefined.
Str(s) == [defined |-> TRUE, str |-> s]
Undefined == [defined |-> FALSE]

\* !field for a field that holds characters: undefined and '' are falsy.
Falsy(field) == ~field.defined \/ field.str = <<>>


NoCall == [phase |-> "idle"]

\* The limiter fields after the check, and whether the request is within the limit.
checkRateLimit(this, rateLimit, t) ==
    LET a == IF t - this.lastResetTime >= MsPerHour
             THEN [this EXCEPT !.requestCount = 0, !.lastResetTime = t]
             ELSE this
    IN  [this |-> a, withinLimit |-> a.requestCount < rateLimit]

validateConversationRequest(request) ==
    IF Falsy(request.replica_id) \/ Len(trim(request.replica_id.str)) = 0
    THEN [valid |-> FALSE, error |-> <<"Replica ID is required for conversation creation">>]
    ELSE IF Falsy(request.conversation_name) \/ Len(trim(request.conversation_name.str)) = 0
    THEN [valid |-> FALSE, error |-> <<"Conversation name is required">>]
    ELSE IF Falsy(request.custom_greeting) \/ Len(trim(request.custom_greeting.str)) = 0
    THEN [valid |-> FALSE, error |-> <<"Custom greeting is required for conversation">>]
    ELSE IF Len(request.custom_greeting.str) > 500
    THEN [valid |-> FALSE, error |-> <<"Custom greeting exceeds maximum length of 500 characters">>]
    ELSE IF ~Falsy(request.conversational_context)
            /\ Len(request.conversational_context.str) > 2000
    THEN [valid |-> FALSE, error |-> <<"Conversational context exceeds maximum length of 2000 characters">>]
    ELSE [valid |-> TRUE]

\* What an attempt of makeRequest ends in: a retry after a delay, an error
\* thrown to the caller, or a value returned to it.
Retry(delay) == [kind |-> "retry", delay |-> delay]
Thrown(name, message) == [kind |-> "throw", name |-> name, message |-> message]
Returned(data) == [kind |-> "return", data |-> data]

\* The text an error body carries: errorData.error of a JSON body, else the raw text.
BodyMessage(body, fallback) ==
    IF body.kind = "json"
    THEN IF body.value.error # <<>> THEN body.value.error ELSE fallback
    ELSE IF body.kind = "text"
    THEN IF body.text # <<>> THEN body.text ELSE fallback
    ELSE fallback

\* The message makeRequest builds for a response that is not ok.
TavusErrorMessage(status, body) ==
    LET errorMessage == BodyMessage(body, <<"Conversation request failed">>)
    IN  IF status = 401 THEN <<"Invalid API key. Please check your Tavus API key.">>
        ELSE IF status = 429 THEN <<"Rate limit exceeded. Please try again later.">>
        ELSE IF status = 400 THEN <<"Invalid request parameters: ">> \o errorMessage
        ELSE IF status = 402
        THEN <<"Insufficient credits or conversation minutes. Please check your Tavus account.">>
        ELSE IF status = 404 THEN <<"Replica not found. Please check your replica ID.">>
        ELSE IF status \in {500, 502, 503, 504}
        THEN <<"Tavus service is temporarily unavailable. Please try again later.">>
        ELSE errorMessage

\* The outcome fetch gives inside the try block: what fetch throws on an abort
\* or a network failure.
FetchError(out) ==
    IF out.kind = "abort"
    THEN Thrown("AbortError", <<"The user aborted a request.">>)
    ELSE Thrown("TypeError", out.message)

\* The try block of TavusAPI.makeRequest after fetch has settled.
TavusMakeRequestTry(attempt, out) ==
    IF out.kind # "response" THEN FetchError(out)
    ELSE IF out.status \notin 200..299
    THEN IF out.status >= 500 /\ attempt <= TavusAPI.maxRetries
         THEN Retry(TavusAPI.retryDelay * attempt)
         ELSE Thrown("Error", TavusErrorMessage(out.status, out.body))
    ELSE IF out.status = 204
    THEN Returned([conversation_id |-> "undefined", conversation_url |-> "undefined",
                   status |-> "undefined"])
    ELSE IF out.body.kind = "json" THEN Returned(out.body.value)
    ELSE Thrown("SyntaxError", <<"Unexpected token < in JSON">>)

\* A message is the sequence of the fragments it was put together from.
IsNetworkError(message) ==
    \E i \in 1..Len(message) : message[i] \in {"Failed to fetch", "NetworkError"}

\* The catch block of TavusAPI.makeRequest: it sees every error thrown in the
\* try block, the Error made from a response that is not ok included.
TavusMakeRequestCatch(attempt, error) ==
    IF error.name = "AbortError"
    THEN IF attempt <= TavusAPI.maxRetries
         THEN Retry(TavusAPI.retryDelay * attempt)
         ELSE Thrown("Error", <<"Conversation request timed out. Please try again.">>)
    ELSE IF IsNetworkError(error.message)
    THEN IF attempt <= TavusAPI.maxRetries
         THEN Retry(TavusAPI.retryDelay * attempt)
         ELSE Thrown("Error", <<"Unable to connect to conversation service. Please check your internet connection.">>)
    ELSE error

RateLimitError == Thrown("Error", <<"Rate limit exceeded. Please try again later.">>)

\* TavusAPI.makeRequest up to its await of fetch: the limiter is consulted and,
\* within the limit, the attempt is counted and the request is sent.
makeRequestBegin(this, rateLimit, t) ==
    LET r == checkRateLimit(this, rateLimit, t)
    IN  IF ~r.withinLimit
        THEN [this |-> r.this, sent |-> FALSE]
        ELSE [this |-> [r.this EXCEPT !.requestCount = @ + 1], sent |-> TRUE]

updateUsageTracking(this) == [this EXCEPT !.current_month_usage = @ + 1]

\* What createConversation returns once makeRequest has returned or thrown.
createConversationEnd(this, r) ==
    IF r.kind = "return"
    THEN [this |-> updateUsageTracking(this),
          val |-> [success |-> TRUE,
                   conversation_id |-> r.data.conversation_id,
                   conversation_url |-> r.data.conversation_url,
                   status |-> IF r.data.status = "undefined" THEN "creating"
                              ELSE r.data.status]]
    ELSE [this |-> this, val |-> [success |-> FALSE, error |-> r.message]]

\* What getConversationStatus returns once makeRequest has returned or thrown.
getConversationStatusEnd(conversationId, r) ==
    IF r.kind = "return"
    THEN [isNull |-> FALSE, conversation_id |-> conversationId, status |-> r.data.status]
    ELSE [isNull |-> TRUE]

\* Mutant of IsEmptyResponse: only the status tells an empty response.
IsEmptyResponse_StatusOnly(response) == response.status = 204

\* response.status === 204 || response.headers.get('content-length') === '0'
IsEmptyResponse(response) == response.status = 204 \/ response.contentLength = "0"

\* endConversation from the settling of fetch on: the result returned, and
\* whether the body of the response was read (json() or text()).
endConversationEnd(out) ==
    \* `HTTP ${response.status}: ${response.statusText}`
    LET HttpStatusText == <<"HTTP ", ToString(out.status), ": ", out.statusText>>
    IN
    IF out.kind # "response"
    THEN [val |-> [success |-> FALSE, error |-> out.message], bodyRead |-> FALSE]
    ELSE IF out.status \notin 200..299
    THEN [val |-> [success |-> FALSE,
                   error |-> IF out.contentType = "application/json"
                             THEN IF out.body.kind = "json"
                                  THEN BodyMessage(out.body, <<"Failed to end conversation">>)
                                  ELSE HttpStatusText
                             ELSE IF out.body.kind = "unreadable"
                                  THEN HttpStatusText
                                  ELSE BodyMessage([kind |-> "text",
                                                    text |-> IF out.body.kind = "text"
                                                             THEN out.body.text
                                                             ELSE <<"{...}">>],
                                                   HttpStatusText)],
          bodyRead |-> TRUE]
    ELSE IF IsEmptyResponse(out)
    THEN [val |-> [success |-> TRUE], bodyRead |-> FALSE]
    ELSE [val |-> [success |-> TRUE], bodyRead |-> out.contentType = "application/json"]

(***************************************************************************)
(* LingoAPI.                                                               *)
(***************************************************************************)
\* getLanguageByCode(code) finds a language among supportedLanguages.
getLanguageByCode(code) ==
    code \in {"en", "es", "fr", "de", "it", "pt", "ja", "ko", "zh", "ar"}

\* !field for a field that holds a language code.
FalsyCode(field) == ~field.defined \/ field.str = ""

validateRequest(request) ==
    IF Falsy(request.text) \/ Len(trim(request.text.str)) = 0
    THEN [valid |-> FALSE, error |-> <<"Text content is required for translation">>]
    ELSE IF Len(request.text.str) > 1000
    THEN [valid |-> FALSE, error |-> <<"Text content exceeds maximum length of 1000 characters">>]
    ELSE IF FalsyCode(request.target_language)
    THEN [valid |-> FALSE, error |-> <<"Target language is required">>]
    ELSE IF ~getLanguageByCode(request.target_language.str)
    THEN [valid |-> FALSE, error |-> <<"Unsupported target language">>]
    ELSE IF ~FalsyCode(request.source_language)
            /\ ~getLanguageByCode(request.source_language.str)
    THEN [valid |-> FALSE, error |-> <<"Unsupported source language">>]
    ELSE [valid |-> TRUE]

\* Mutant of SameLanguage: no request is taken for a same-language request.
SameLanguage_Never(request) == FALSE

\* request.source_language && request.source_language === request.target_language
SameLanguage(request) ==
    /\ ~FalsyCode(request.source_language)
    /\ request.source_language = request.target_language

LingoErrorMessage(status, body) ==
    LET errorMessage == BodyMessage(body, <<"Translation request failed">>)
    IN  IF status = 401 THEN <<"Invalid API key. Please check your Lingo.dev API key.">>
        ELSE IF status = 429 THEN <<"Rate limit exceeded. Please try again later.">>
        ELSE IF status = 400 THEN <<"Invalid request parameters: ">> \o errorMessage
        ELSE IF status \in {500, 502, 503, 504}
        THEN <<"Lingo.dev service is temporarily unavailable. Please try again later.">>
        ELSE errorMessage

LingoFailure(error) == [success |-> FALSE, error |-> error]

\* The try block of LingoAPI.makeRequest after fetch has settled.
LingoMakeRequestTry(attempt, out) ==
    IF out.kind # "response" THEN FetchError(out)
    ELSE IF out.status \notin 200..299
    THEN IF out.status >= 500 /\ attempt <= LingoAPI.maxRetries
         THEN Retry(LingoAPI.retryDelay * attempt)
         ELSE Returned(LingoFailure(LingoErrorMessage(out.status, out.body)))
    ELSE IF out.body.kind # "json" THEN Thrown("SyntaxError", <<"Unexpected token < in JSON">>)
    ELSE IF out.body.value.translated_text = <<>>
    THEN Returned(LingoFailure(<<"Invalid response format from translation service">>))
    ELSE Returned([success |-> TRUE,
                   translated_text |-> out.body.value.translated_text,
                   detected_language |-> out.body.value.detected_language])

\* The catch block of LingoAPI.makeRequest.
LingoMakeRequestCatch(attempt, error) ==
    IF error.name = "AbortError"
    THEN IF attempt <= LingoAPI.maxRetries
         THEN Retry(LingoAPI.retryDelay * attempt)
         ELSE Returned(LingoFailure(<<"Translation request timed out. Please try again.">>))
    ELSE IF IsNetworkError(error.message)
    THEN IF attempt <= LingoAPI.maxRetries
         THEN Retry(LingoAPI.retryDelay * attempt)
         ELSE Returned(LingoFailure(<<"Unable to connect to translation service. Please check your internet connection.">>))
    ELSE Returned(LingoFailure(<<"An unexpected error occurred during translation. Please try again.">>))

\* What translateText returns once makeRequest has returned or thrown.
translateTextEnd(r) ==
    IF r.kind = "return" THEN r.data
    ELSE LingoFailure(<<"An unexpected error occurred during translation. Please try again.">>)

(***************************************************************************)
(* The inputs of the clients and the outcomes of the network.              *)
(***************************************************************************)
ConversationIds == {"A"}

\* Bodies of responses that are not ok.
ErrorBodies ==
    {[kind |-> "text", text |-> <<>>],
     [kind |-> "json", value |-> [error |-> <<"replica is busy">>]],
     [kind |-> "text", text |-> <<"upstream ", "NetworkError">>]}

\* The outcomes of fetch that are failures: an abort by the timeout, a network
\* failure, a response that is not ok.
FailedOutcomes ==
    {[kind |-> "abort"], [kind |-> "network", message |-> <<"Failed to fetch">>]}
    \cup {[kind |-> "response", status |-> s, body |-> b] : s \in {400, 404, 422, 503},
                                                          b \in ErrorBodies}

(***************************************************************************)
(* The public methods of the clients up to their first await.  Each gives  *)
(* the client fields, the request in flight and the result, if settled.    *)
(***************************************************************************)
InFlight(client, op, arg) ==
    [phase |-> "fetching", client |-> client, op |-> op, arg |-> arg,
     attempt |-> 1, calls |-> 1, waits |-> <<>>, cause |-> [kind |-> "none"]]

\* The promise of a public method is resolved with val, after calls network
\* calls and the waits listed.
Resolved(op, arg, val, calls, waits, bodyRead) ==
    [op |-> op, arg |-> arg, rejected |-> FALSE, val |-> val,
     calls |-> calls, waits |-> waits, bodyRead |-> bodyRead]

\* The promise of a public method is rejected: the error reaches the caller.
Rejected(op, arg, error) ==
    [op |-> op, arg |-> arg, rejected |-> TRUE, val |-> error,
     calls |-> 0, waits |-> <<>>, bodyRead |-> FALSE]

createConversationBegin(this, request, t) ==
    IF ~request.custom_greeting.defined
    THEN [this |-> this, call |-> NoCall,
          cret |-> Rejected("createConversation", request,
                            Thrown("TypeError", <<"Cannot read properties of undefined">>))]
    ELSE LET validation == validateConversationRequest(request)
         IN  IF ~validation.valid
             THEN [this |-> this, call |-> NoCall,
                   cret |-> Resolved("createConversation", request,
                                     [success |-> FALSE, error |-> validation.error],
                                     0, <<>>, FALSE)]
             ELSE IF this.remaining_minutes <= 0
             THEN [this |-> this, call |-> NoCall,
                   cret |-> Resolved("createConversation", request,
                                     [success |-> FALSE,
                                      error |-> <<"No conversation minutes remaining. Please check your Tavus account.">>],
                                     0, <<>>, FALSE)]
             ELSE LET b == makeRequestBegin(this, TavusAPI.rateLimit, t)
                  IN  IF b.sent
                      THEN [this |-> b.this,
                            call |-> InFlight("tavus", "createConversation", request),
                            cret |-> [op |-> "pending"]]
                      ELSE LET e == createConversationEnd(b.this, RateLimitError)
                           IN  [this |-> e.this, call |-> NoCall,
                                cret |-> Resolved("createConversation", request, e.val,
                                                  0, <<>>, FALSE)]

getConversationStatusBegin(this, conversationId, t) ==
    LET b == makeRequestBegin(this, TavusAPI.rateLimit, t)
    IN  IF b.sent
        THEN [this |-> b.this,
              call |-> InFlight("tavus", "getConversationStatus", conversationId),
              cret |-> [op |-> "pending"]]
        ELSE [this |-> b.this, call |-> NoCall,
              cret |-> Resolved("getConversationStatus", conversationId,
                                getConversationStatusEnd(conversationId, RateLimitError),
                                0, <<>>, FALSE)]

\* endConversation calls fetch itself.
endConversationBegin(this, conversationId) ==
    [this |-> this, call |-> InFlight("tavus", "endConversation", conversationId),
     cret |-> [op |-> "pending"]]

translateTextBegin(this, request, t) ==
    IF ~request.text.defined
    THEN [this |-> this, call |-> NoCall,
          cret |-> Rejected("translateText", request,
                            Thrown("TypeError", <<"Cannot read properties of undefined">>))]
    ELSE LET validation == validateRequest(request)
         IN  IF ~validation.valid
             THEN [this |-> this, call |-> NoCall,
                   cret |-> Resolved("translateText", request,
                                     LingoFailure(validation.error), 0, <<>>, FALSE)]
             ELSE IF SameLanguage(request)
             THEN [this |-> this, call |-> NoCall,
                   cret |-> Resolved("translateText", request,
                                     [success |-> TRUE,
                                      translated_text |-> request.text.str,
                                      detected_language |-> request.source_language.str],
                                     0, <<>>, FALSE)]
             ELSE LET b == makeRequestBegin(this, LingoAPI.rateLimit, t)
                  IN  IF b.sent
                      THEN [this |-> b.this,
                            call |-> InFlight("lingo", "translateText", request),
                            cret |-> [op |-> "pending"]]
                      ELSE [this |-> b.this, call |-> NoCall,
                            cret |-> Resolved("translateText", request,
                                              translateTextEnd(RateLimitError),
                                              0, <<>>, FALSE)]

(***************************************************************************)
(* Steps of the clients.                                                   *)
(***************************************************************************)
ClientSame ==
    /\ UNCHANGED <<session, backup, timers, warningTimer, expiryTimer,
                   lastActivityTime, warningCb, expiredCb, listeners, warning,
                   expiredCount, warned, lastActivityWrite, ret>>
    /\ UNCHANGED userVars

\* Time passes, up to an instant at which a rate limiter changes its answer.
AdvanceClient ==
    /\ ticks < MaxClientTicks
    /\ \E t \in {tavus.lastResetTime + MsPerHour - 1, tavus.lastResetTime + MsPerHour,
                 lingo.lastResetTime + MsPerHour - 1, lingo.lastResetTime + MsPerHour} :
        /\ t > now
        /\ now' = t
    /\ ticks' = ticks + 1
    /\ UNCHANGED clientVars
    /\ ClientSame

Idle == call = NoCall /\ ui.awaiting = "none"

\* The application calls a public method of the conversation client.
CreateConversation ==
    /\ Idle
    /\ tavus.current_month_usage < MaxConversations
    /\ \E request \in [replica_id : {Undefined, Str(<<" ">>), Str(<<"r">>)},
                        conversation_name : {Undefined, Str(<<"n">>)},
                        custom_greeting : {Undefined, Str(<<"H", "i">>), Str(Chars("g", 501))},
                        conversational_context : {Undefined, Str(Chars("c", 2001))}] :
        LET k == createConversationBegin(tavus, request, now)
        IN  tavus' = k.this /\ call' = k.call /\ cret' = k.cret
    /\ UNCHANGED <<lingo, ui, now, ticks>>
    /\ ClientSame

GetConversationStatus ==
    /\ Idle
    /\ \E conversationId \in ConversationIds :
        LET k == getConversationStatusBegin(tavus, conversationId, now)
        IN  tavus' = k.this /\ call' = k.call /\ cret' = k.cret
    /\ UNCHANGED <<lingo, ui, now, ticks>>
    /\ ClientSame

EndConversation ==
    /\ Idle
    /\ \E conversationId \in ConversationIds :
        LET k == endConversationBegin(tavus, conversationId)
        IN  tavus' = k.this /\ call' = k.call /\ cret' = k.cret
    /\ UNCHANGED <<lingo, ui, now, ticks>>
    /\ ClientSame

\* makeRequest has returned or thrown r: the public method that awaits it settles.
TavusSettles(this, r) ==
    /\ call' = NoCall
    /\ IF call.op = "createConversation"
       THEN LET e == createConversationEnd(this, r)
            IN  /\ tavus' = e.this
                /\ cret' = Resolved(call.op, call.arg, e.val, call.calls, call.waits, FALSE)
       ELSE /\ tavus' = this
            /\ cret' = Resolved(call.op, call.arg, getConversationStatusEnd(call.arg, r),
                                call.calls, call.waits, FALSE)

\* fetch settles for a request of TavusAPI.makeRequest.
TavusFetchSettles ==
    /\ call.phase = "fetching"
    /\ call.client = "tavus"
    /\ call.op # "endConversation"
    /\ \E out \in FailedOutcomes
            \cup {[kind |-> "response", status |-> 204, body |-> [kind |-> "text", text |-> <<>>]],
                  [kind |-> "response", status |-> 200, body |-> [kind |-> "text", text |-> <<"<html>">>]]}
            \cup {[kind |-> "response", status |-> 200,
                   body |-> [kind |-> "json",
                             value |-> [conversation_id |-> c, conversation_url |-> "url",
                                        status |-> st]]] :
                    c \in {IF tavus.current_month_usage = 0 THEN "A" ELSE "B"},
                    st \in {"active", "ended", "undefined"}} :
        LET try == TavusMakeRequestTry(call.attempt, out)
            r == IF try.kind = "throw" THEN TavusMakeRequestCatch(call.attempt, try)
                 ELSE try
        IN  IF r.kind = "retry"
            THEN /\ call' = [call EXCEPT !.phase = "delaying", !.waits = Append(@, r.delay),
                                         !.cause = out]
                 /\ UNCHANGED <<tavus, cret>>
            ELSE TavusSettles(tavus, r)
    /\ UNCHANGED <<lingo, ui, now, ticks>>
    /\ ClientSame

\* The retry delay is over: makeRequest calls itself with attempt + 1.
TavusDelayElapses ==
    /\ call.phase = "delaying"
    /\ call.client = "tavus"
    /\ LET b == makeRequestBegin(tavus, TavusAPI.rateLimit, now)
       IN  IF b.sent
           THEN /\ tavus' = b.this
                /\ call' = [call EXCEPT !.phase = "fetching", !.attempt = @ + 1,
                                        !.calls = @ + 1, !.cause = [kind |-> "none"]]
                /\ UNCHANGED cret
           ELSE TavusSettles(b.this, RateLimitError)
    /\ UNCHANGED <<lingo, ui, now, ticks>>
    /\ ClientSame

\* fetch settles for endConversation.
EndConversationSettles ==
    /\ call.phase = "fetching"
    /\ call.client = "tavus"
    /\ call.op = "endConversation"
    /\ \E out \in {[kind |-> "network", message |-> <<"Failed to fetch">>]}
            \cup {[kind |-> "response", status |-> 404, statusText |-> "Not Found",
                   contentLength |-> "9", contentType |-> ct, body |-> b] :
                    ct \in {"application/json", "text/plain", "null"}, b \in ErrorBodies}
            \cup {[kind |-> "response", status |-> s, statusText |-> "",
                   contentLength |-> cl, contentType |-> ct,
                   body |-> [kind |-> "text", text |-> <<"<html>">>]] :
                    s \in {200, 204}, cl \in {"0", "9", "null"},
                    ct \in {"application/json", "text/plain", "null"}} :
        LET e == endConversationEnd(out)
        IN  cret' = Resolved(call.op, [conversationId |-> call.arg, response |-> out],
                             e.val, call.calls, call.waits, e.bodyRead)
    /\ call' = NoCall
    /\ UNCHANGED <<tavus, lingo, ui, now, ticks>>
    /\ ClientSame

\* The application calls translateText.
TranslateText ==
    /\ Idle
    /\ \E request \in [text : {Undefined, Str(<<" ">>), Str(<<"H", "i">>)},
                        target_language : {Undefined, Str("en"), Str("es")},
                        source_language : {Undefined, Str("en"), Str("xx")}] :
        LET k == translateTextBegin(lingo, request, now)
        IN  lingo' = k.this /\ call' = k.call /\ cret' = k.cret
    /\ UNCHANGED <<tavus, ui, now, ticks>>
    /\ ClientSame

LingoSettles(this, r) ==
    /\ call' = NoCall
    /\ lingo' = this
    /\ cret' = Resolved(call.op, call.arg, translateTextEnd(r), call.calls, call.waits, FALSE)

LingoFetchSettles ==
    /\ call.phase = "fetching"
    /\ call.client = "lingo"
    /\ \E out \in FailedOutcomes
            \cup {[kind |-> "response", status |-> 200, body |-> [kind |-> "text", text |-> <<"<html>">>]]}
            \cup {[kind |-> "response", status |-> 200,
                   body |-> [kind |-> "json",
                             value |-> [translated_text |-> tt, detected_language |-> "en"]]] :
                    tt \in {<<>>, <<"H", "o", "l", "a">>}} :
        LET try == LingoMakeRequestTry(call.attempt, out)
            r == IF try.kind = "throw" THEN LingoMakeRequestCatch(call.attempt, try)
                 ELSE try
        IN  IF r.kind = "retry"
            THEN /\ call' = [call EXCEPT !.phase = "delaying", !.waits = Append(@, r.delay),
                                         !.cause = out]
                 /\ UNCHANGED <<lingo, cret>>
            ELSE LingoSettles(lingo, r)
    /\ UNCHANGED <<tavus, ui, now, ticks>>
    /\ ClientSame

LingoDelayElapses ==
    /\ call.phase = "delaying"
    /\ call.client = "lingo"
    /\ LET b == makeRequestBegin(lingo, LingoAPI.rateLimit, now)
       IN  IF b.sent
           THEN /\ lingo' = b.this
                /\ call' = [call EXCEPT !.phase = "fetching", !.attempt = @ + 1,
                                        !.calls = @ + 1, !.cause = [kind |-> "none"]]
                /\ UNCHANGED cret
           ELSE LingoSettles(b.this, RateLimitError)
    /\ UNCHANGED <<tavus, ui, now, ticks>>
    /\ ClientSame

(***************************************************************************)
(* ConversationInterface: the handlers of the component, each from one     *)
(* await to the next.  ui.awaiting names the handler that waits for the    *)
(* client.                                                                 *)
(***************************************************************************)
\* The request handleCreateConversation builds from the fields of the component.
BuildRequest(replicaId, textContent) ==
    [replica_id |-> Str(trim(replicaId)),
     conversation_name |-> Str(<<"Syntrio Interactive Session">>),
     custom_greeting |-> Str(<<"Hello! I'm your AI assistant. How can I help you today?">>),
     conversational_context |-> IF trim(textContent) = <<>> THEN Undefined
                                ELSE Str(trim(textContent))]

\* setTimeout(() => pollConversationStatus(conversationId), delay): the timeout
\* stays pending until it fires; nothing but the unmounting of the component
\* clears it.
SchedulePoll(u, conversationId, delay) ==
    [u EXCEPT !.pollTimers = @ \cup {[conversationId |-> conversationId, delay |-> delay]}]

\* pollConversationStatus after its await: status is what getConversationStatus
\* returned.  The closure holds the activeConversation of the render in which
\* the conversation was created, which is null.
pollConversationStatusEnd(u, conversationId, status) ==
    IF status.isNull THEN u
    ELSE LET a == [u EXCEPT !.activeConversation =
                                 IF @.exists THEN [@ EXCEPT !.status = status.status] ELSE @]
         IN  IF status.status = "active"
             THEN SchedulePoll([a EXCEPT !.durationTimer = TRUE], conversationId, 5000)
             ELSE IF status.status \in {"ended", "failed"}
             THEN [a EXCEPT !.durationTimer = FALSE, !.activeConversation = [exists |-> FALSE]]
             ELSE IF status.status \in {"creating", "ready"}
             THEN SchedulePoll(a, conversationId, 5000)
             ELSE a

\* The button that calls it is rendered only while no conversation is active.
HandleCreateConversation ==
    /\ Idle
    /\ ~ui.activeConversation.exists
    /\ tavus.current_month_usage < MaxCreations
    /\ \E replicaId \in {<<"r">>, <<" ", "r">>}, textContent \in {<<>>, <<"t">>} :
        LET k == createConversationBegin(tavus, BuildRequest(replicaId, textContent), now)
        IN  tavus' = k.this /\ call' = k.call /\ cret' = k.cret
    /\ ui' = [ui EXCEPT !.awaiting = "create"]
    /\ UNCHANGED <<lingo, now, ticks>>
    /\ ClientSame

\* createConversation has settled: handleCreateConversation goes on, and on
\* success starts the polling of the new conversation.
HandleCreateConversationResumes ==
    /\ call = NoCall
    /\ ui.awaiting = "create"
    /\ cret.op = "createConversation"
    /\ IF ~cret.rejected /\ cret.val.success
          /\ cret.val.conversation_id \notin {"undefined", ""}
          /\ cret.val.conversation_url \notin {"undefined", ""}
       THEN LET k == getConversationStatusBegin(tavus, cret.val.conversation_id, now)
            IN  /\ tavus' = k.this /\ call' = k.call /\ cret' = k.cret
                /\ ui' = [ui EXCEPT !.awaiting = "poll",
                                    !.activeConversation =
                                        [exists |-> TRUE, id |-> cret.val.conversation_id,
                                         status |-> cret.val.status]]
       ELSE /\ ui' = [ui EXCEPT !.awaiting = "none"]
            /\ UNCHANGED <<tavus, call, cret>>
    /\ UNCHANGED <<lingo, now, ticks>>
    /\ ClientSame

\* The poll timer runs pollConversationStatus.
PollTimerFires ==
    /\ Idle
    /\ \E timer \in ui.pollTimers :
        LET k == getConversationStatusBegin(tavus, timer.conversationId, now)
        IN  /\ tavus' = k.this /\ call' = k.call /\ cret' = k.cret
            /\ ui' = [ui EXCEPT !.awaiting = "poll", !.pollTimers = @ \ {timer}]
    /\ UNCHANGED <<lingo, now, ticks>>
    /\ ClientSame

\* getConversationStatus has settled: pollConversationStatus goes on.
PollResumes ==
    /\ call = NoCall
    /\ ui.awaiting = "poll"
    /\ cret.op = "getConversationStatus"
    /\ ui' = IF cret.rejected
             THEN SchedulePoll([ui EXCEPT !.awaiting = "none"], cret.arg, 10000)
             ELSE pollConversationStatusEnd([ui EXCEPT !.awaiting = "none"], cret.arg,
                                            cret.val)
    /\ UNCHANGED <<tavus, lingo, call, cret, now, ticks>>
    /\ ClientSame

HandleEndConversation ==
    /\ Idle
    /\ ui.activeConversation.exists
    /\ LET k == endConversationBegin(tavus, ui.activeConversation.id)
       IN  tavus' = k.this /\ call' = k.call /\ cret' = k.cret
    /\ ui' = [ui EXCEPT !.awaiting = "end"]
    /\ UNCHANGED <<lingo, now, ticks>>
    /\ ClientSame

\* endConversation has settled: handleEndConversation goes on.
HandleEndConversationResumes ==
    /\ call = NoCall
    /\ ui.awaiting = "end"
    /\ cret.op = "endConversation"
    /\ ui' = IF cret.val.success
             THEN [ui EXCEPT !.awaiting = "none", !.durationTimer = FALSE,
                             !.activeConversation = [exists |-> FALSE]]
             ELSE [ui EXCEPT !.awaiting = "none"]
    /\ UNCHANGED <<tavus, lingo, call, cret, now, ticks>>
    /\ ClientSame

InitClients ==
    /\ tavus = [requestCount |-> 0, lastResetTime |-> 0, remaining_minutes |-> 250,
                current_month_usage |-> 0]
    /\ lingo = [requestCount |-> 0, lastResetTime |-> 0]
    /\ call = NoCall
    /\ cret = [op |-> "none"]
    /\ ui = [activeConversation |-> [exists |-> FALSE], pollTimers |-> {},
             durationTimer |-> FALSE, awaiting |-> "none"]

\* The profile of an account is edited while time passes.
NextProfile ==
    \/ AdvanceClient
    \/ CreateUser
    \/ UpdateUser
    \/ SetCurrentUser
    \/ ClearCurrentUser

\* The conversation client, called by the application.
NextTavus ==
    \/ AdvanceClient
    \/ CreateConversation
    \/ GetConversationStatus
    \/ EndConversation
    \/ TavusFetchSettles
    \/ TavusDelayElapses
    \/ EndConversationSettles

\* The translation client, called by the application.
NextLingo ==
    \/ AdvanceClient
    \/ TranslateText
    \/ LingoFetchSettles
    \/ LingoDelayElapses

\* The conversation component over the conversation client.
NextPoll ==
    \/ HandleCreateConversation
    \/ HandleCreateConversationResumes
    \/ PollTimerFires
    \/ PollResumes
    \/ HandleEndConversation
    \/ HandleEndConversationResumes
    \/ TavusFetchSettles
    \/ TavusDelayElapses
    \/ EndConversationSettles

Init == InitSession /\ InitUsers /\ InitClients

Next == NextSession

\* The work-in-progress backup slot and the operations on it.
NextBackup ==
    \/ Advance
    \/ BackupWorkInProgress
    \/ RestoreWorkInProgress
    \/ ClearWorkBackup

\* A session with periodic work-in-progress backups, up to its forced expiry.
NextExpiry ==
    \/ Advance
    \/ RegisterCallbacks
    \/ CreateSession
    \/ BackupWorkInProgress
    \/ WarningTimerFires
    \/ ExpiryTimerFires
    \/ OnLogout

\* Something other than the application (another script of the origin, the
\* developer tools, an interrupted write) leaves a string under a key that does
\* not parse as JSON.
CorruptStorage ==
    /\ \E key \in {"users", "currentUser", "session", "backup"} :
        /\ users' = IF key = "users" THEN <<Malformed>> ELSE users
        /\ currentUser' = IF key = "currentUser" THEN Malformed ELSE currentUser
        /\ session' = IF key = "session" THEN Malformed ELSE session
        /\ backup' = IF key = "backup" THEN Malformed ELSE backup
    /\ ret' = [op |-> "storage", val |-> TRUE, wrote |-> FALSE, expired |-> FALSE]
    /\ uret' = [op |-> "storage", name |-> <<>>, email |-> <<>>, password |-> <<>>,
                res |-> Failure("")]
    /\ UNCHANGED <<now, ticks, timers, warningTimer, expiryTimer, lastActivityTime,
                   warningCb, expiredCb, listeners, warning, expiredCount, warned,
                   lastActivityWrite, created>>
    /\ UNCHANGED clientVars

\* The reads and writes of the four storage keys, over storage that can be corrupted.
NextStorage ==
    \/ CorruptStorage
    \/ CreateSession
    \/ GetCurrentSession
    \/ BackupWorkInProgress
    \/ RestoreWorkInProgress
    \/ AuthenticateUser
    \/ GetCurrentUser

Spec == Init /\ [][Next]_vars

SpecStorage == Init /\ [][NextStorage]_vars

SpecProfile == Init /\ [][NextProfile]_vars

SpecExpiry == Init /\ [][NextExpiry]_vars

SpecTavus == Init /\ [][NextTavus]_vars

SpecLingo == Init /\ [][NextLingo]_vars

SpecPoll == Init /\ [][NextPoll]_vars

SpecBackup == Init /\ [][NextBackup]_vars

SpecUsers == Init /\ [][NextUsers]_vars

(***************************************************************************)
(* The claims.                                                             *)
(***************************************************************************)
DayMs == 24 * 60 * 60 * 1000

\* C1: isSessionValid() returns true iff a session record is stored and
\* now < expiresAt, and once now >= expiresAt (the instant now = expiresAt
\* included) the call returns false and leaves no session record in storage.
C1_ValidIffUnexpiredAndRemoved ==
    ret.op = "isSessionValid" =>
        /\ ret.val <=> (session.exists /\ now < session.expiresAt)
        /\ session.exists => now < session.expiresAt

\* C2: with a stored, unexpired session, extendSession() sets the stored
\* expiresAt to exactly now + SESSION_DURATION whatever the remaining lifetime
\* was, and a second call at the same instant leaves that expiresAt as it is.
C2_ExtendSetsNowPlusDuration ==
    [][/\ (ret'.op = "extendSession" /\ session.exists /\ now < session.expiresAt)
            => /\ ret'.val = TRUE
               /\ session'.exists
               /\ session'.expiresAt = now' + DayMs
       /\ (ret'.op = "extendSession" /\ ret.op = "extendSession" /\ ret.val = TRUE)
            => session'.expiresAt = session.expiresAt]_vars

\* C2 witness: an extension of a session that had already used part of its lifetime.
C2_Witness ==
    /\ ret.op = "extendSession"
    /\ ret.val = TRUE
    /\ session.exists
    /\ session.loginTime < now
    /\ session.expiresAt = now + DayMs

\* C3 as stated: after an activity signal with a session stored, the 30-second
\* window that ends with this signal holds exactly one write of the session
\* record (not zero).
C3_ExactlyOneWritePerWindow ==
    (ret.op = "activity" /\ session.exists) =>
        /\ lastActivityWrite >= 0
        /\ now - lastActivityWrite <= 30 * 1000

\* C3 as amended: two writes made by activity signals are more than 30 seconds
\* apart (a 30-second window holds at most one), and a signal writes exactly
\* when it arrives more than 30 seconds after the last accepted signal, or the
\* construction of the manager, while a session is stored and not past expiresAt.
C3_AtMostOneWritePerWindow ==
    [][ret'.op = "activity" =>
        /\ ret'.wrote => (lastActivityWrite = -1 \/ now' - lastActivityWrite > 30 * 1000)
        /\ ret'.wrote <=> /\ now - lastActivityTime > 30 * 1000
                          /\ session.exists
                          /\ now <= session.expiresAt]_vars

\* C3 witness: a signal inside the window of an earlier write, coalesced with it.
C3_Witness ==
    /\ ret.op = "activity"
    /\ ~ret.wrote
    /\ session.exists
    /\ lastActivityWrite >= 0
    /\ lastActivityWrite < now
    /\ now - lastActivityWrite <= 30 * 1000

\* C4: in every state with a stored session, an armed expiry timer is due at
\* the stored expiresAt and an armed warning timer at expiresAt - WARNING_TIME.
C4_TimersFollowExpiresAt ==
    session.exists =>
        \A x \in timers :
            /\ x.kind = "expiry" => x.due = session.expiresAt
            /\ x.kind = "warning" => x.due = session.expiresAt - 5 * 60 * 1000

\* C5: every session expiry, on whichever path, deletes the session record,
\* leaves no timer armed and has invoked the registered expired callback
\* exactly once for that session.
C5_ExpiryDeliveredOnce ==
    (ret.expired /\ expiredCb) =>
        /\ ~session.exists
        /\ timers = {}
        /\ expiredCount = 1

\* C6: every delivery of the session-expired callback is preceded, in the
\* lifetime of the same session, by a delivery of a warning with show = true.
C6_WarningBeforeExpired ==
    expiredCount > 0 => warned

\* C7: restoreWorkInProgress() returns the stored snapshot iff
\* now - capturedAt < 24h and absent otherwise, and leaves the backup slot
\* exactly as it was.
C7_RestoreFreshOnlyAndReadOnly ==
    [][ret'.op = "restoreWorkInProgress" =>
        /\ backup' = backup
        /\ ret'.val = IF backup.exists /\ now - backup.timestamp < DayMs
                      THEN backup
                      ELSE [exists |-> FALSE]]_vars

\* C7 witness: a snapshot exactly 24 hours old is returned as absent and stays stored.
C7_Witness ==
    /\ ret.op = "restoreWorkInProgress"
    /\ backup.exists
    /\ now - backup.timestamp = DayMs
    /\ ~ret.val.exists

\* C8: at most one warning timer and at most one expiry timer are armed, and
\* every armed timer is the one the manager holds: arming cancels what was armed.
C8_OneTimerPerKind ==
    /\ Cardinality({x \in timers : x.kind = "warning"}) <= 1
    /\ Cardinality({x \in timers : x.kind = "expiry"}) <= 1
    /\ \A x \in timers :
        \/ x.kind = "warning" /\ x.id = warningTimer
        \/ x.kind = "expiry" /\ x.id = expiryTimer

\* C8 witness: timers armed anew by extendSession over the timers of createSession.
C8_Witness ==
    /\ ret.op = "extendSession"
    /\ ret.val = TRUE
    /\ session.loginTime < now
    /\ Cardinality(timers) = 2
    /\ \A x \in timers : x.due > now

\* C9: after cleanup() no timer is armed and no listener the manager registered
\* is attached any more.
C9_CleanupDetachesListeners ==
    ret.op = "cleanup" => (timers = {} /\ listeners = {})

\* C10: after an accepted createUser, authenticateUser with the same email and
\* password (no updateUser of that user in between) succeeds and returns the id,
\* email and name createUser returned, and no returned profile has the password.
C10_CreateThenAuthenticate ==
    uret.op = "authenticateUser" =>
        \A c \in created :
            (c.email = uret.email /\ c.password = uret.password) =>
                /\ uret.res.success
                /\ uret.res.user.id = c.user.id
                /\ uret.res.user.email = c.user.email
                /\ uret.res.user.name = c.user.name
                /\ "password" \notin DOMAIN uret.res.user
                /\ "password" \notin DOMAIN c.user

\* C11: when a stored user has email e, a createUser call whose email differs
\* from e only in letter case (with a name and a password that pass the checks
\* made before the email lookup) fails with the duplicate-email error, and
\* every such call fails and leaves the user table as it was.
C11_CaseVariantRejected ==
    [][(/\ uret'.op = "createUser"
        /\ \E i \in 1..Len(users) : toLowerCase(uret'.email) = toLowerCase(users[i].email))
        => /\ ~uret'.res.success
           /\ users' = users
           /\ (Len(trim(uret'.name)) >= 2 /\ Len(uret'.password) >= 6)
                => uret'.res.error = "An account with this email address already exists"]_vars

\* C11 witness: an upper-case variant of a stored email was refused as a duplicate.
C11_Witness ==
    /\ uret.op = "createUser"
    /\ uret.email # toLowerCase(uret.email)
    /\ \E i \in 1..Len(users) : users[i].email = toLowerCase(uret.email)
    /\ ~uret.res.success
    /\ uret.res.error = "An account with this email address already exists"

\* C12: no two records of the user table have emails that are equal ignoring
\* letter case, whatever accepted email inputs (white space around them
\* included) created them, and the record at each position keeps its id.
C12_UniqueEmailsFixedIds ==
    /\ \A i, j \in 1..Len(users) :
          toLowerCase(users[i].email) = toLowerCase(users[j].email) => i = j
    /\ \A i \in 1..Len(users) : users[i].id = i

\* C17: when a session for which work was backed up is force-expired, by the
\* expiry timer or by the warning dialog's 'Save & Logout', the backup slot is
\* written once more at that moment: right after the expiry the slot holds a
\* snapshot stamped with the expiry time, not only the last periodic backup.
C17_BackupWrittenAtExpiry ==
    (ret.op \in {"expiryTimer", "onLogout"} /\ ret.expired /\ backup.exists) =>
        backup.timestamp = now

\* C13: createConversation checks a request in the order replica id present,
\* name present, greeting present, greeting length <= 500, context length <=
\* 2000, and for a request that fails a rule it returns success = false with
\* the message of the first failing rule, without any network call.
C13_FirstFailingRule ==
    cret.op = "createConversation" =>
        LET replica == cret.arg.replica_id
            name == cret.arg.conversation_name
            greeting == cret.arg.custom_greeting
            context == cret.arg.conversational_context
            expected ==
                IF ~replica.defined \/ trim(replica.str) = <<>>
                THEN "Replica ID is required for conversation creation"
                ELSE IF ~name.defined \/ trim(name.str) = <<>>
                THEN "Conversation name is required"
                ELSE IF ~greeting.defined \/ trim(greeting.str) = <<>>
                THEN "Custom greeting is required for conversation"
                ELSE IF Len(greeting.str) > 500
                THEN "Custom greeting exceeds maximum length of 500 characters"
                ELSE IF context.defined /\ Len(context.str) > 2000
                THEN "Conversational context exceeds maximum length of 2000 characters"
                ELSE "none"
        IN  expected # "none" =>
                /\ ~cret.rejected
                /\ ~cret.val.success
                /\ cret.val.error = <<expected>>
                /\ cret.calls = 0

\* C14: while a client's counter is at its quota and less than one hour has
\* passed since its last reset, no step sends a request of that client to the
\* network; and a status request made one hour or more after the last reset
\* is sent, with the counter restarted.
C14_QuotaBlocksNextRequest ==
    [][/\ (/\ tavus.requestCount >= 50
           /\ now - tavus.lastResetTime < 60 * 60 * 1000)
            => ~(call'.phase = "fetching" /\ call.phase # "fetching"
                 /\ call'.client = "tavus")
       /\ (/\ lingo.requestCount >= 100
           /\ now - lingo.lastResetTime < 60 * 60 * 1000)
            => ~(call'.phase = "fetching" /\ call.phase # "fetching"
                 /\ call'.client = "lingo")
       /\ (/\ call = NoCall
           /\ now - tavus.lastResetTime >= 60 * 60 * 1000
           /\ \/ call'.phase = "fetching" /\ call'.op = "getConversationStatus"
              \/ cret' # cret /\ cret'.op = "getConversationStatus")
            => /\ call'.phase = "fetching"
               /\ tavus'.lastResetTime = now
               /\ tavus'.requestCount = 1]_vars

\* C15: a translateText request that passes validation and whose source
\* language equals its target language is answered at once with success, the
\* input text unchanged and the source language as detected language, and
\* nothing is sent: no request in flight, the limiter untouched.
C15_SameLanguageNoNetwork ==
    [][(/\ cret'.op = "translateText"
        /\ cret' # cret
        /\ validateRequest(cret'.arg).valid
        /\ cret'.arg.source_language = cret'.arg.target_language)
        => /\ call = NoCall
           /\ call' = NoCall
           /\ lingo' = lingo
           /\ ~cret'.rejected
           /\ cret'.calls = 0
           /\ cret'.val = [success |-> TRUE,
                           translated_text |-> cret'.arg.text.str,
                           detected_language |-> cret'.arg.source_language.str]]_vars

\* C15 witness: a same-language request answered with its own text.
C15_Witness ==
    /\ cret.op = "translateText"
    /\ ~cret.rejected
    /\ cret.arg.source_language = Str("en")
    /\ cret.arg.target_language = Str("en")
    /\ cret.val.success
    /\ cret.val.translated_text = <<"H", "i">>
    /\ cret.calls = 0

\* C16: endConversation returns success = true for every successful response
\* that is empty (status 204, or content-length 0) and does not read its body.
C16_EmptySuccessNotParsed ==
    (/\ cret.op = "endConversation"
     /\ cret.arg.response.kind = "response"
     /\ cret.arg.response.status \in 200..299
     /\ (cret.arg.response.status = 204 \/ cret.arg.response.contentLength = "0"))
        => /\ cret.val = [success |-> TRUE]
           /\ ~cret.bodyRead

\* C16 witness: a 200 response with content-length 0 and a JSON content type.
C16_Witness ==
    /\ cret.op = "endConversation"
    /\ cret.arg.response.kind = "response"
    /\ cret.arg.response.status = 200
    /\ cret.arg.response.contentLength = "0"
    /\ cret.arg.response.contentType = "application/json"
    /\ cret.val.success
    /\ ~cret.bodyRead

\* C18: a request makes at most 4 network attempts, and it waits for a retry
\* only after an HTTP 5xx status, a timeout abort or a network failure (never
\* after a 4xx status), for attempt * 2000 ms.
C18_RetryOnlyTransient ==
    call.phase # "idle" =>
        /\ call.calls <= 4
        /\ call.phase = "delaying" =>
            /\ \/ call.cause.kind \in {"abort", "network"}
               \/ call.cause.kind = "response" /\ call.cause.status >= 500
            /\ call.waits[Len(call.waits)] = call.attempt * 2000

\* C19: a getConversationStatus call sends one GET and never waits for a
\* retry, and it returns (null on failure) instead of raising.
C19_StatusSingleGet ==
    /\ (call.phase # "idle" /\ call.op = "getConversationStatus")
        => (call.calls = 1 /\ call.phase # "delaying")
    /\ cret.op = "getConversationStatus" => (cret.calls <= 1 /\ ~cret.rejected)

\* C20: when a poll of the conversation status has settled, a next poll is
\* scheduled if the poll yielded null or raised, or reported creating, ready
\* or active, and none is scheduled if it reported ended or failed.
C20_PollingContinues ==
    [][(ui.awaiting = "poll" /\ ui'.awaiting = "none")
        => /\ (cret.rejected \/ cret.val.isNull)
                => \E timer \in ui'.pollTimers : timer.conversationId = cret.arg
           /\ (~cret.rejected /\ ~cret.val.isNull)
                => /\ cret.val.status \in {"creating", "ready", "active"}
                        => \E timer \in ui'.pollTimers : timer.conversationId = cret.arg
                   /\ cret.val.status \in {"ended", "failed"}
                        => \A timer \in ui'.pollTimers : timer.conversationId # cret.arg]_vars

\* C21: no step sends a request of the conversation client (createConversation,
\* getConversationStatus, endConversation, or a retry of one) to the network
\* while its hourly counter is at the quota and the hour has not passed.
C21_LimiterBeforeEveryCall ==
    [][(/\ call'.phase = "fetching"
        /\ call.phase # "fetching"
        /\ call'.client = "tavus")
        => \/ tavus.requestCount < TavusAPI.rateLimit
           \/ now - tavus.lastResetTime >= MsPerHour]_vars

\* C30: createConversation and translateText never reject: every settled call
\* resolved, with success = true or with success = false and an error message
\* that is not empty.
C30_NeverRejects ==
    cret.op \in {"createConversation", "translateText"}
        => /\ ~cret.rejected
           /\ cret.val.success \/ cret.val.error # <<>>

\* C22: a read of a storage key that holds malformed JSON (the user table by
\* authenticateUser, the current-user pointer by getCurrentUser, the session
\* record by getCurrentSession, the backup by restoreWorkInProgress) returns
\* "absent" and leaves the key without the malformed value.
C22_MalformedReadClearsKey ==
    [][/\ (session = Malformed /\ ret'.op = "getCurrentSession")
            => (~ret'.val.exists /\ session' # Malformed)
       /\ (backup = Malformed /\ ret'.op = "restoreWorkInProgress")
            => (~ret'.val.exists /\ backup' # Malformed)
       /\ (currentUser = Malformed /\ uret'.op = "getCurrentUser")
            => (~uret'.res.exists /\ currentUser' # Malformed)
       /\ (users = <<Malformed>> /\ uret'.op = "authenticateUser")
            => (~uret'.res.success /\ users' # <<Malformed>>)]_vars

\* C23: an updateUser(id, {name}) step with a valid name and a known id
\* succeeds, changes only the name (to the trimmed input) and updatedAt (to
\* now) of the record with that id, and rewrites the current-user pointer to
\* the updated profile if and only if the pointer's id is id; with an unknown
\* id or an invalid name it fails and changes neither the table nor the pointer.
C23_UpdateUserFrame ==
    [][(/\ uret'.op = "updateUser"
        /\ uret'.name # <<>>
        /\ <<uret, users, currentUser>>' # <<uret, users, currentUser>>)
        => LET id == uret'.userId
               name == uret'.name
           IN  IF Len(trim(name)) >= 2 /\ \E i \in 1..Len(users) : users[i].id = id
               THEN /\ uret'.res.success
                    /\ Len(users') = Len(users)
                    /\ \A i \in 1..Len(users) :
                        users'[i] = IF users[i].id = id
                                    THEN [users[i] EXCEPT !.name = trim(name),
                                                          !.updatedAt = now]
                                    ELSE users[i]
                    /\ currentUser' =
                        IF currentUser.exists /\ currentUser.user.id = id
                        THEN [exists |-> TRUE, user |-> uret'.res.user]
                        ELSE currentUser
                    /\ \E i \in 1..Len(users) : uret'.res.user = userProfile(users'[i])
               ELSE /\ ~uret'.res.success
                    /\ users' = users
                    /\ currentUser' = currentUser]_vars

\* C23 witness: the logged-in user's name was changed at a later instant than
\* the account was made, with a second account in the table.
C23_Witness ==
    /\ uret.op = "updateUser"
    /\ uret.res.success
    /\ Len(users) = 2
    /\ currentUser.exists
    /\ currentUser.user = uret.res.user
    /\ uret.res.user.name = <<"B", "o">>
    /\ uret.res.user.updatedAt > uret.res.user.createdAt

\* C24: when the extend closure of a visible warning is invoked while the
\* stored session is unexpired, afterwards the session expires at now +
\* SESSION_DURATION, the warning timer and the expiry timer are armed for that
\* expiry, and the last warning delivered has show = false.
C24_ExtendFromWarning ==
    [][(/\ ret'.op = "onExtend"
        /\ warning.show
        /\ session.exists
        /\ now <= session.expiresAt)
        => /\ ret'.val
           /\ session'.exists
           /\ session'.expiresAt = now + SESSION_DURATION
           /\ timers' = {[id |-> warningTimer', kind |-> "warning",
                          due |-> session'.expiresAt - WARNING_TIME],
                         [id |-> expiryTimer', kind |-> "expiry",
                          due |-> session'.expiresAt]}
           /\ ~warning'.show]_vars

\* C24 witness: a session extended from its warning dialog, inside the warning window.
C24_Witness ==
    /\ ret.op = "onExtend"
    /\ ret.val
    /\ now > SESSION_DURATION - WARNING_TIME
    /\ session.exists
    /\ session.expiresAt = now + SESSION_DURATION
    /\ ~warning.show

\* C25: an accepted activity signal on an unexpired session sets lastActivity
\* to now, and sets expiresAt to now + SESSION_DURATION if and only if
\* expiresAt - now is below half of SESSION_DURATION; it changes nothing else
\* of the record.  In every state a stored session has expiresAt <= now +
\* SESSION_DURATION.
C25_SlidingExpiration ==
    [][/\ (/\ ret'.op = "activity"
           /\ ret'.val
           /\ session.exists
           /\ now <= session.expiresAt)
            => session' = [session EXCEPT
                              !.lastActivity = now,
                              !.expiresAt = IF @ - now < SESSION_DURATION \div 2
                                            THEN now + SESSION_DURATION
                                            ELSE @]
       /\ session'.exists => session'.expiresAt <= now' + SESSION_DURATION]_vars

\* C25 witness: activity past the halfway point has extended the session.
C25_Witness ==
    /\ ret.op = "activity"
    /\ ret.val
    /\ session.exists
    /\ session.loginTime + SESSION_DURATION \div 2 < now
    /\ session.expiresAt = now + SESSION_DURATION
    /\ session.lastActivity = now

\* C26: whenever a warning with show = true is delivered to the callback, the
\* stored session expires within WARNING_TIME from now and the delivered
\* timeRemaining is at most WARNING_TIME.
C26_PromptOnlyInWarningWindow ==
    [][(warning'.show /\ warning' # warning)
        => /\ warning'.timeRemaining <= WARNING_TIME
           /\ session'.exists
           /\ session'.expiresAt - now' <= WARNING_TIME]_vars

\* C28: whenever the callback of the expiry timer deletes the session record,
\* that record has expired: its stored expiresAt is <= now.
C28_ExpiryTimerRemovesOnlyExpired ==
    [][(/\ ret'.op = "expiryTimer"
        /\ session.exists
        /\ ~session'.exists)
        => session.expiresAt <= now]_vars


\* C27: whenever the session leaves the warning window, by extension or by
\* expiry, the callback receives a warning with show = false, so that in no
\* reachable state the last delivered warning is visible while no session
\* record is stored.
C27_NoVisibleWarningWithoutSession ==
    warning.show => session.exists


\* C29: at most one chain of status polls is live in the component (a pending
\* poll timeout or a poll waiting for its answer), and a poll that settles for
\* a conversation other than the active one leaves the active conversation
\* and the duration timer as they were.
C29_LatePollLeavesActiveConversation ==
    [][/\ Cardinality(ui'.pollTimers) + (IF ui'.awaiting = "poll" THEN 1 ELSE 0) <= 1
       /\ (/\ ui.awaiting = "poll"
           /\ ui'.awaiting = "none"
           /\ ui.activeConversation.exists
           /\ ui.activeConversation.id # cret.arg)
            => /\ ui'.activeConversation = ui.activeConversation
               /\ ui'.durationTimer = ui.durationTimer]_vars

=============================================================================
